---- MODULE Spec2Model ----
(***************************************************************************)
(* A model of strategy.py: the StrategyExecutor (series smoothing, the     *)
(* backtest loop, the portfolio and the transaction ledger) and the        *)
(* LinRegStrategy trailing-stop strategy.                                  *)
(*                                                                         *)
(* Python floats are modelled as exact rationals <<n, d>> in lowest terms  *)
(* with d > 0, extended the IEEE way with <<1, 0>> (+inf), <<-1, 0>>       *)
(* (-inf) and <<0, 0>> (nan), so that a division by a zero price gives     *)
(* what numpy gives.  Rounding error and underflow are not modelled.       *)
(* Python's 0-based arrays are 1-based sequences here: a[i] of the source  *)
(* is a[i + 1] of the model.                                               *)
(***************************************************************************)
EXTENDS Integers, Sequences, FiniteSets, TLC

----------------------------------------------------------------------------
(* Float arithmetic (numpy.float64 operators), exact.                      *)

Abs(n) == IF n < 0 THEN -n ELSE n

Sign(n) == IF n < 0 THEN -1 ELSE IF n > 0 THEN 1 ELSE 0

\* Euclid's algorithm on naturals
RECURSIVE GCD(_, _)
GCD(a, b) == IF b = 0 THEN a ELSE GCD(b, a % b)

\* n / d in lowest terms; d = 0 gives an infinity or nan.
Norm(n, d) ==
  IF d = 0 THEN <<Sign(n), 0>>
  ELSE LET g == GCD(Abs(n), Abs(d))
       IN  <<Sign(d) * (n \div g), Abs(d) \div g>>

Num(n) == <<n, 1>>

Zero == Num(0)

One == Num(1)

IsFinite(a) == a[2] # 0

IsNan(a) == a = <<0, 0>>

RNeg(a) == <<-a[1], a[2]>>

RAdd(a, b) ==
  IF a[2] = 0 /\ b[2] = 0 THEN (IF a = b THEN a ELSE <<0, 0>>)
  ELSE IF a[2] = 0 THEN a
  ELSE IF b[2] = 0 THEN b
  ELSE LET g == GCD(a[2], b[2])
       IN  Norm(a[1] * (b[2] \div g) + b[1] * (a[2] \div g), (a[2] \div g) * b[2])

RSub(a, b) == RAdd(a, RNeg(b))

RMul(a, b) ==
  IF a[2] = 0 \/ b[2] = 0 THEN <<Sign(a[1]) * Sign(b[1]), 0>>
  ELSE LET g1 == GCD(Abs(a[1]), b[2])
           g2 == GCD(Abs(b[1]), a[2])
       IN  Norm((a[1] \div g1) * (b[1] \div g2), (a[2] \div g2) * (b[2] \div g1))

\* 1 / a; 1 / 0 is +inf (a RuntimeWarning in numpy, not an exception).
RInv(a) ==
  IF a[2] = 0 THEN (IF a[1] = 0 THEN a ELSE Zero)
  ELSE IF a[1] = 0 THEN <<1, 0>>
  ELSE <<Sign(a[1]) * a[2], Abs(a[1])>>

RDiv(a, b) == RMul(a, RInv(b))

\* a < b; every comparison with nan is false.
RLt(a, b) ==
  IF IsNan(a) \/ IsNan(b) THEN FALSE
  ELSE IF a[2] = 0 \/ b[2] = 0
       THEN (IF a[2] = 0 THEN a[1] ELSE 0) < (IF b[2] = 0 THEN b[1] ELSE 0)
  ELSE LET g == GCD(a[2], b[2])
       IN  a[1] * (b[2] \div g) < b[1] * (a[2] \div g)

RGt(a, b) == RLt(b, a)

RLe(a, b) == RLt(a, b) \/ (a = b /\ ~IsNan(a))

\* Python's max(a, b): b only when b > a.
RMax(a, b) == IF RGt(b, a) THEN b ELSE a

----------------------------------------------------------------------------
(* numpy / scipy array functions used by _smoothData.                      *)

\* an array with its elements computed (TLC keeps [i \in S |-> e] unevaluated)
Array(f) == SubSeq(f, 1, Len(f))

\* np.diff
diff(a) == Array([i \in 1..(Len(a) - 1) |-> RSub(a[i + 1], a[i])])

\* np.indices(shape)[0] for a one-dimensional shape
indices(n) == Array([i \in 1..n |-> Num(i - 1)])

\* np.linspace(start, stop, num) with the endpoint included
linspace(start, stop, num) ==
  Array([j \in 1..num |->
     IF j = num /\ num > 1 THEN stop
     ELSE IF num = 1 THEN start
     ELSE RAdd(start, RMul(Num(j - 1), RDiv(RSub(stop, start), Num(num - 1))))])

\* the largest j in lo..hi with xp[j] <= v (xp increasing, xp[lo] <= v), by
\* bisection as in numpy's binary search
RECURSIVE bisect(_, _, _, _)
bisect(v, xp, lo, hi) ==
  IF lo = hi THEN lo
  ELSE LET mid == (lo + hi + 1) \div 2
       IN  IF RLe(xp[mid], v) THEN bisect(v, xp, mid, hi) ELSE bisect(v, xp, lo, mid - 1)

\* np.interp at one point, xp increasing and non-empty
interp1(v, xp, fp) ==
  LET n == Len(xp) IN
  IF RGt(v, xp[n]) THEN fp[n]
  ELSE IF RLt(v, xp[1]) THEN fp[1]
  ELSE LET j == bisect(v, xp, 1, n)
       IN  IF j = n THEN fp[j]
           ELSE IF xp[j] = v THEN fp[j]
           ELSE RAdd(RMul(RDiv(RSub(fp[j + 1], fp[j]), RSub(xp[j + 1], xp[j])),
                          RSub(v, xp[j])),
                     fp[j])

\* np.interp(x, xp, fp); the caller handles the ValueError of an empty xp
interp(xs, xp, fp) == Array([j \in 1..Len(xs) |-> interp1(xs[j], xp, fp)])

\* np.cumsum of s[lo..hi]: the partial sums, halving the range so that the
\* evaluation stays shallow (exact addition is associative)
RECURSIVE cumsum(_, _, _)
cumsum(s, lo, hi) ==
  IF hi < lo THEN <<>>
  ELSE IF lo = hi THEN <<s[lo]>>
  ELSE LET mid == (lo + hi) \div 2
           left == cumsum(s, lo, mid)
           right == cumsum(s, mid + 1, hi)
           last == left[Len(left)]
       IN  left \o Array([k \in 1..Len(right) |-> RAdd(last, right[k])])

\* cumtrapz(y, x, initial=0): a leading 0, as long as y
cumtrapz_initial(ys, xs) ==
  LET d == diff(xs)
      t == Array([j \in 1..(Len(ys) - 1) |->
                    RDiv(RMul(d[j], RAdd(ys[j + 1], ys[j])), Num(2))])
  IN  <<Zero>> \o cumsum(t, 1, Len(t))

\* cumtrapz(y) without the sample points: unit spacing
cumtrapz_unit(ys, xs) ==
  LET t == Array([j \in 1..(Len(ys) - 1) |-> RDiv(RAdd(ys[j + 1], ys[j]), Num(2))])
  IN  cumsum(t, 1, Len(t))

\* scipy.integrate.cumtrapz(y, x) with no initial value: one shorter than y
cumtrapz(ys, xs) ==
  LET d == diff(xs)
      t == Array([j \in 1..(Len(ys) - 1) |->
                    RDiv(RMul(d[j], RAdd(ys[j + 1], ys[j])), Num(2))])
  IN  cumsum(t, 1, Len(t))

----------------------------------------------------------------------------
(* StrategyExecutor._smoothData, as a function of closings: the values it  *)
(* assigns to _x_smooth and _y_smooth, or the exception it ends with       *)
(* (np.interp raises ValueError for an empty diff, before any assignment). *)

smoothData(closings) ==
  LET count == Len(closings)
      diff_1 == diff(closings)
      x_diff_1 == indices(Len(diff_1))
      x_diff_1_int == linspace(Zero, Num(Len(diff_1)), count * 4)
  IN  IF Len(x_diff_1) = 0
      THEN [raised |-> "ValueError", x_smooth |-> <<>>, y_smooth |-> <<>>]
      ELSE LET diff_1_int == interp(x_diff_1_int, x_diff_1, diff_1)
               integ == cumtrapz(diff_1_int, x_diff_1_int)
               closings_int ==
                 Array([k \in 1..Len(integ) |-> RAdd(integ[k], closings[1])])
           IN  [raised |-> "none",
                x_smooth |-> Array([k \in 1..(Len(x_diff_1_int) - 1) |->
                                      RAdd(x_diff_1_int[k + 1], <<1, 2>>)]),
                y_smooth |-> closings_int]

----------------------------------------------------------------------------
(* The arguments and constants of backtest.                                *)

\* line 56: the cash every call starts from
InitialUsd == 100

\* lines 62-64: the warm-up, which is also the window length
Window == 100

\* Closing prices offered to backtest, all strictly positive.
Flat(n, c) == Array([i \in 1..n |-> c])

Ramp(n, c0, d) == Array([i \in 1..n |-> RAdd(c0, RMul(Num(i - 1), d))])

\* Scenario A: 50 equally spaced values from 100 to 200
ScenarioA == Ramp(50, Num(100), <<100, 49>>)

\* too short for np.interp (N < 2) or for the warm-up (4N - 1 <= 100)
TooShort == {Flat(1, Num(5)), Flat(25, Num(5))}

\* 26 closings: 103 smoothed points, indices 100..102
Linear26 == {Flat(26, Num(5)), Ramp(26, Num(100), Num(-3))}

\* one early jump, then flat: the smoothed curve settles below zero
Spike26 == <<Num(1), Num(9)>> \o Flat(24, Num(1))

\* a late peak and fall: the smoothed prices at the three ticks are 25, 0, -25
Peak26 ==
  LET e == <<3366, 10609>>
  IN  <<RAdd(Num(1), e), RAdd(Num(2), e)>> \o Flat(22, RAdd(Num(5), e))
        \o <<RAdd(Num(105), e), RAdd(Num(2), e)>>

\* 27 rising closings: 107 smoothed points, indices 100..106
RampUp27 == Ramp(27, Num(1), Num(3))

\* a fall, a long floor, a peak and a crash: the smoothed prices at the three
\* ticks are 10274/103, -26/103 and -10326/103
Crash26 == Ramp(9, Num(83), Num(-10)) \o Flat(15, Num(3)) \o <<Num(414), Num(2)>>

\* a fall, a long floor, a dip and a rise: the smoothed prices at the three
\* ticks are 8579/103, 11154/103 and 13729/103
Rise26 == Ramp(8, Num(93), Num(-5)) \o Flat(16, Num(58)) \o <<Num(1), Num(104)>>

\* the series whose windows bend inside the short-term part of the fit
Bent26 == {Crash26, Rise26}

AllClosings ==
  TooShort \cup Linear26 \cup Bent26 \cup {Spike26, Peak26, RampUp27, ScenarioA}

\* line 58: what self._smoothData(closings) does for each of the series,
\* computed once, as pairs <<closings, result>>
SmoothedPairs == {<<c, smoothData(c)>> : c \in AllClosings}

Smoothed(c) == (CHOOSE p \in SmoothedPairs : p[1] = c)[2]

----------------------------------------------------------------------------
(* LinRegStrategy.                                                         *)

\* LinRegStrategyParams (class attributes, the defaults)
sellTrendThreshold == 2

buyTrendThreshold == 2

shortTermWindow == 10

longTermWindow == 80

tradeFee == <<1, 500>>

trailingMargin == <<1, 50>>

lossMargin == <<1, 100>>

\* a[:-w] for w >= 0 (a[:-0] is a[:0], empty)
dropLast(a, w) == IF w = 0 \/ w >= Len(a) THEN <<>> ELSE SubSeq(a, 1, Len(a) - w)

\* the sum of s[lo..hi], halving the range
RECURSIVE sum(_, _, _)
sum(s, lo, hi) ==
  IF hi < lo THEN Zero
  ELSE IF lo = hi THEN s[lo]
  ELSE LET mid == (lo + hi) \div 2
       IN  RAdd(sum(s, lo, mid), sum(s, mid + 1, hi))

mean(s) == RDiv(sum(s, 1, Len(s)), Num(Len(s)))

\* LinRegStrategy._fitLine: the least-squares line through (x, y), as
\* <<slope, intercept>> (polyfit's coeff[1], coeff[0]); x has two or more
\* distinct values
fitLine(xs, ys) ==
  LET xbar == mean(xs)
      ybar == mean(ys)
      sxy == sum(Array([i \in 1..Len(xs) |->
                          RMul(RSub(xs[i], xbar), RSub(ys[i], ybar))]), 1, Len(xs))
      sxx == sum(Array([i \in 1..Len(xs) |->
                          RMul(RSub(xs[i], xbar), RSub(xs[i], xbar))]), 1, Len(xs))
      m == RDiv(sxy, sxx)
  IN  <<m, RSub(ybar, RMul(m, xbar))>>

\* np.std(ys) squared: the population variance
variance(ys) ==
  LET ybar == mean(ys)
  IN  mean(Array([i \in 1..Len(ys) |-> RMul(RSub(ys[i], ybar), RSub(ys[i], ybar))]))

\* a > sqrt(v), for v >= 0, without the square root
gtSqrt(a, v) == RGt(a, Zero) /\ RGt(RMul(a, a), v)

\* the stop follows the price down as well as up
ratchet_plain(sellBar, price) ==
  RMul(RSub(RSub(One, RMul(Num(2), tradeFee)), trailingMargin), price)

\* line 120: the ratcheted stop
ratchet(sellBar, price) ==
  RMax(sellBar,
       RMul(RSub(RSub(One, RMul(Num(2), tradeFee)), trailingMargin), price))

\* line 128: the stop set on entry
entryStop(price) ==
  RMul(price, RAdd(RSub(One, lossMargin), RMul(Num(2), tradeFee)))

\* the stop-loss test whether or not a position is open
stopLoss_anytime(open, price, sellBar) == RLe(price, sellBar)

\* a tick without the stop-loss test
stopLoss_never(open, price, sellBar) == FALSE

\* line 117: the stop-loss test
stopLoss(open, price, sellBar) == open /\ RLe(price, sellBar)

\* lines 104-113: the slopes, the intercept and the variance a tick computes
\* from its window
fits(times, prices) ==
  LET xShort == dropLast(times, shortTermWindow)
      yShort == dropLast(prices, shortTermWindow)
      xLong == dropLast(times, longTermWindow)
      yLong == dropLast(prices, longTermWindow)
      fitShort == fitLine(xShort, yShort)
      fitLong == fitLine(xLong, yLong)
  IN  [mLinShort |-> fitShort[1], mLinLong |-> fitLong[1], bLinLong |-> fitLong[2],
       varFit |-> variance(yLong)]

\* the windows backtest cuts from a smoothed series (lines 62-64)
WindowsOf(s) ==
  {<<SubSeq(s.x_smooth, i - Window + 1, i), SubSeq(s.y_smooth, i - Window + 1, i)>> :
     i \in Window..(Len(s.x_smooth) - 1)}

\* line 106 for the windows of the bent series, at indices 100, 101 and 102:
\* the slope polyfit gives for the short-term part.  Its exact value does not
\* fit 32-bit integers; it is entered here, computed with unbounded integers
\* and rounded to 1/1000.  A tick uses it only in the threshold tests of lines
\* 122-123, from which it is more than 1 away.
mLinShortOf(c) ==
  IF c = Crash26 THEN <<(<<-663, 250>>), (<<-2491, 1000>>), (<<-227, 100>>)>>
  ELSE <<(<<-1031, 1000>>), (<<-241, 250>>), (<<-227, 250>>)>>

\* lines 104-113 with the short-term slope given
fitsGiven(times, prices, mLinShort) ==
  LET xLong == dropLast(times, longTermWindow)
      yLong == dropLast(prices, longTermWindow)
      fitLong == fitLine(xLong, yLong)
  IN  [mLinShort |-> mLinShort, mLinLong |-> fitLong[1], bLinLong |-> fitLong[2],
       varFit |-> variance(yLong)]

\* the window backtest cuts from a smoothed series at index i (lines 62-64)
WindowAt(s, i) ==
  <<SubSeq(s.x_smooth, i - Window + 1, i), SubSeq(s.y_smooth, i - Window + 1, i)>>

\* the windows of the straight and of the bent series, and the fits of each of
\* them, computed once, as pairs <<window, result>>
FitPairs ==
  {<<w, fits(w[1], w[2])>> :
     w \in UNION {WindowsOf(Smoothed(c)) : c \in Linear26 \cup {RampUp27}}}
  \cup
  {<<WindowAt(Smoothed(p[1]), p[2]),
     fitsGiven(WindowAt(Smoothed(p[1]), p[2])[1], WindowAt(Smoothed(p[1]), p[2])[2],
               mLinShortOf(p[1])[p[2] - Window + 1])>> :
     p \in Bent26 \X (Window..(Window + 2))}

\* the result kept for a window, or fits(times, prices) when none is
lookup(found, times, prices) ==
  IF found # {} THEN (CHOOSE p \in found : TRUE)[2] ELSE fits(times, prices)

\* fits(times, prices), looked up where it has been computed
Fit(times, prices) ==
  lookup({p \in FitPairs : p[1] = <<times, prices>>}, times, prices)

\* lines 112-129: the decision of a tick, from the fits f, the last time and
\* the last price of the window
decide(sellBar, open, tlast, price, f) ==
  LET yFit == RAdd(RMul(f.mLinLong, tlast), f.bLinLong)
      ratcheted == ratchet(sellBar, price)
      sellSignal == /\ RGt(RSub(f.mLinLong, f.mLinShort), Num(sellTrendThreshold))
                    /\ gtSqrt(RSub(yFit, price), f.varFit)
      buySignal == /\ RGt(RSub(f.mLinShort, f.mLinLong), Num(buyTrendThreshold))
                   /\ gtSqrt(RSub(price, yFit), f.varFit)
  IN  IF stopLoss(open, price, sellBar)
      THEN [motion |-> "CLOSE", sellBar |-> sellBar, raised |-> "none"]
      ELSE IF sellSignal /\ open
      THEN [motion |-> "CLOSE", sellBar |-> ratcheted, raised |-> "none"]
      ELSE IF buySignal /\ ~open
      THEN [motion |-> "OPEN", sellBar |-> entryStop(price), raised |-> "none"]
      ELSE [motion |-> "NONE", sellBar |-> ratcheted, raised |-> "none"]

\* LinRegStrategy.tick on an instance whose _sellBar is sellBar: the motion
\* returned ("NONE" for Python's None), the new _sellBar, and the exception
\* polyfit raises for an empty truncated window
tick(sellBar, open, times, prices) ==
  IF Len(dropLast(times, shortTermWindow)) = 0 \/ Len(dropLast(times, longTermWindow)) = 0
  THEN [motion |-> "NONE", sellBar |-> sellBar, raised |-> "TypeError"]
  ELSE decide(sellBar, open, times[Len(times)], prices[Len(prices)], Fit(times, prices))

----------------------------------------------------------------------------
(* The executor, its strategies and one backtest call at a time.           *)

VARIABLES
  usd, token,          \* StrategyExecutor._usd, _token
  strategies,          \* _strategies: the registered instances, in order
  transactions,        \* _transactions: <<time, price, isOpen>> entries
  x_smooth, y_smooth,  \* _x_smooth, _y_smooth
  pc,                  \* where the running backtest call is; "idle" between calls
  fee, closingsArg,       \* the arguments of the running (or last) call
  baseline,            \* backtest's local baseline
  index,               \* backtest's local index, -1 while unbound
  si,                  \* position of the inner loop in _strategies (from 1)
  outcome,             \* how the last call ended: returned pair or exception
  calls,               \* number of backtest calls begun
  pre,                 \* history: usd, token, ledger and strategies at the
                       \* last call's entry
  prev,                \* history: arguments, strategies, outcome and ledger at
                       \* entry of the call before the last one
  lastTick,            \* history: the last tick call and what it returned
  ticked               \* history: the <<index, position>> of every tick call
                       \* of the last backtest call, in order

vars == <<usd, token, strategies, transactions, x_smooth, y_smooth, pc, fee,
          closingsArg, baseline, index, si, outcome, calls, pre, prev, lastTick, ticked>>

\* bounds of the exploration
MaxStrategies == 2

MaxCalls == 2

\* backtest's locals x and y: the slices [index - 100 : index]
x == SubSeq(x_smooth, index - Window + 1, index)

y == SubSeq(y_smooth, index - Window + 1, index)

\* Strategy instances.  "stub" is any implementation of Strategy.tick, which
\* may return any motion or raise; "open" is the stateless implementation
\* that returns OPEN at every tick and so never CLOSE; "linreg" is
\* LinRegStrategy.  sellBar is LinRegStrategy._sellBar (unused by the others).
StubStrategy == [kind |-> "stub", sellBar |-> Zero]

OpenStrategy == [kind |-> "open", sellBar |-> Zero]

\* LinRegStrategy.__init__
LinRegStrategy == [kind |-> "linreg", sellBar |-> Zero]

NewStrategies == {StubStrategy, OpenStrategy, LinRegStrategy}

HasKind(strats, k) == \E i \in 1..Len(strats) : strats[i].kind = k

\* the strategy configuration: the classes registered, in order
Kinds(strats) == Array([i \in 1..Len(strats) |-> strats[i].kind])

Fees == {Zero, <<1, 2>>}

\* The arguments <<fee, closings>> tried with a given set of strategies:
\* the longer series (Scenario A and the rising ramp, at a fee of 0) only
\* when no strategy branches, the curved series only when no line is fitted
\* to them, the bent series (at a fee of 0) for LinRegStrategy without a
\* branching stub.
LinearInputs == Fees \X (TooShort \cup Linear26)

CurvedInputs == Fees \X {Spike26, Peak26}

InputsFor(strats) ==
  IF HasKind(strats, "stub")
  THEN (IF HasKind(strats, "linreg") THEN LinearInputs
        ELSE LinearInputs \cup CurvedInputs)
  ELSE IF HasKind(strats, "linreg")
  THEN LinearInputs \cup {<<Zero, RampUp27>>} \cup ({Zero} \X Bent26)
  ELSE LinearInputs \cup CurvedInputs \cup {<<Zero, RampUp27>>, <<Zero, ScenarioA>>}

NoOutcome == [kind |-> "none", error |-> "none", baseline |-> Zero, finalEquity |-> Zero]

Returned(b, u) == [kind |-> "returned", error |-> "none", baseline |-> b, finalEquity |-> u]

Raised(e) == [kind |-> "raised", error |-> e, baseline |-> Zero, finalEquity |-> Zero]

NoTick == [kind |-> "none", holding |-> FALSE, price |-> Zero, sellBar |-> Zero,
           motion |-> "NONE", raised |-> "none"]

\* StrategyExecutor.__init__
Init ==
  /\ usd = Zero
  /\ token = Zero
  /\ strategies = <<>>
  /\ transactions = <<>>
  /\ x_smooth = <<>>
  /\ y_smooth = <<>>
  /\ pc = "idle"
  /\ fee = Zero
  /\ closingsArg = <<>>
  /\ baseline = Zero
  /\ index = -1
  /\ si = 1
  /\ outcome = NoOutcome
  /\ calls = 0
  /\ pre = [usd |-> Zero, token |-> Zero, transactions |-> <<>>, kinds |-> <<>>]
  /\ prev = [fee |-> Zero, closings |-> <<>>, kinds |-> <<>>, outcome |-> NoOutcome,
             transactions |-> <<>>]
  /\ lastTick = NoTick
  /\ ticked = <<>>

\* StrategyExecutor.addStrategy
AddStrategy(s) ==
  /\ pc = "idle"
  /\ Len(strategies) < MaxStrategies
  /\ strategies' = Append(strategies, s)
  /\ UNCHANGED <<usd, token, transactions, x_smooth, y_smooth, pc, fee, closingsArg,
                 baseline, index, si, outcome, calls, pre, prev, lastTick, ticked>>

\* line 60
baselineOf(ys, f) ==
  RMul(RMul(RDiv(Num(InitialUsd), ys[1]), ys[Len(ys)]),
       RMul(RSub(One, f), RSub(One, f)))

\* a call that starts from the portfolio the last one left
resetPortfolio_carry(u, t) == [usd |-> u, token |-> t]

\* lines 56-57: the portfolio a call starts from, whatever it was
resetPortfolio(u, t) == [usd |-> Num(InitialUsd), token |-> Zero]

\* backtest, lines 56-60: reset, smooth, baseline.  An executor with a
\* branching stub is followed for one call, and for a second one when the
\* stub is its only strategy; the others for MaxCalls.
BacktestBegin(f, c) ==
  LET s == Smoothed(c)
      p == resetPortfolio(usd, token)
  IN  /\ pc = "idle"
      /\ calls < MaxCalls
      /\ HasKind(strategies, "stub") => (calls = 0 \/ (calls = 1 /\ Len(strategies) = 1))
      /\ calls' = calls + 1
      /\ pre' = [usd |-> usd, token |-> token, transactions |-> transactions,
                  kinds |-> Kinds(strategies)]
      /\ prev' = [fee |-> fee, closings |-> closingsArg, kinds |-> pre.kinds,
                   outcome |-> outcome, transactions |-> pre.transactions]
      /\ fee' = f
      /\ closingsArg' = c
      /\ usd' = p.usd
      /\ token' = p.token
      /\ index' = -1
      /\ si' = 1
      /\ lastTick' = NoTick
      /\ ticked' = <<>>
      /\ IF s.raised # "none"
         THEN /\ outcome' = Raised(s.raised)
              /\ UNCHANGED <<x_smooth, y_smooth, baseline, pc>>
         ELSE /\ x_smooth' = s.x_smooth
              /\ y_smooth' = s.y_smooth
              /\ baseline' = baselineOf(s.y_smooth, f)
              /\ outcome' = NoOutcome
              /\ pc' = "for_index"
      /\ UNCHANGED <<strategies, transactions>>

\* a call of backtest with arguments drawn from the inputs
Backtest ==
  /\ pc = "idle"
  /\ \E in \in InputsFor(strategies) : BacktestBegin(in[1], in[2])

\* the range begun one index late
nextIndex_late == IF index = -1 THEN Window + 1 ELSE index + 1

\* line 62: range(100, len(self._x_smooth)) yields its next index
nextIndex == IF index = -1 THEN Window ELSE index + 1

\* lines 62-64: one more index, x and y become its window
LoopNext ==
  /\ pc = "for_index"
  /\ nextIndex < Len(x_smooth)
  /\ index' = nextIndex
  /\ si' = 1
  /\ pc' = "for_strategy"
  /\ UNCHANGED <<usd, token, strategies, transactions, x_smooth, y_smooth, fee,
                 closingsArg, baseline, outcome, calls, pre, prev, lastTick, ticked>>

\* line 62: the range is exhausted
LoopExit ==
  /\ pc = "for_index"
  /\ nextIndex >= Len(x_smooth)
  /\ pc' = "liquidate"
  /\ UNCHANGED <<usd, token, strategies, transactions, x_smooth, y_smooth, fee,
                 closingsArg, baseline, index, si, outcome, calls, pre, prev, lastTick, ticked>>

\* line 69
openToken(u, price, f) == RMul(RDiv(u, price), RSub(One, f))

\* line 73
closeUsd(t, price, f) == RMul(RMul(t, price), RSub(One, f))

\* the ledger entry taken from the last point of the window
entry_window(i, isOpen) == <<x_smooth[i], y_smooth[i], isOpen>>

\* lines 71, 75: the ledger entry of a trade at index i (0-based)
entry(i, isOpen) == <<x_smooth[i + 1], y_smooth[i + 1], isOpen>>

\* a ledger that keeps the last trade only
appendTransaction_replace(txs, e) == <<e>>

\* lines 71, 75: list.append
appendTransaction(txs, e) == Append(txs, e)

\* OPEN applied whether or not there is cash
trade_unguardedOpen(motion, u, t, txs) ==
  IF motion = "OPEN"
  THEN [usd |-> Zero, token |-> openToken(u, y[Len(y)], fee),
        transactions |-> appendTransaction(txs, entry(index, TRUE))]
  ELSE IF motion = "CLOSE" /\ RGt(t, Zero)
  THEN [usd |-> closeUsd(t, y[Len(y)], fee), token |-> Zero,
        transactions |-> appendTransaction(txs, entry(index, FALSE))]
  ELSE [usd |-> u, token |-> t, transactions |-> txs]

\* CLOSE applied whether or not there is a position
trade_unguardedClose(motion, u, t, txs) ==
  IF motion = "OPEN" /\ RGt(u, Zero)
  THEN [usd |-> Zero, token |-> openToken(u, y[Len(y)], fee),
        transactions |-> appendTransaction(txs, entry(index, TRUE))]
  ELSE IF motion = "CLOSE"
  THEN [usd |-> closeUsd(t, y[Len(y)], fee), token |-> Zero,
        transactions |-> appendTransaction(txs, entry(index, FALSE))]
  ELSE [usd |-> u, token |-> t, transactions |-> txs]

\* lines 68-75: what a motion does to the portfolio and the ledger
trade(motion, u, t, txs) ==
  IF motion = "OPEN" /\ RGt(u, Zero)
  THEN [usd |-> Zero, token |-> openToken(u, y[Len(y)], fee),
        transactions |-> appendTransaction(txs, entry(index, TRUE))]
  ELSE IF motion = "CLOSE" /\ RGt(t, Zero)
  THEN [usd |-> closeUsd(t, y[Len(y)], fee), token |-> Zero,
        transactions |-> appendTransaction(txs, entry(index, FALSE))]
  ELSE [usd |-> u, token |-> t, transactions |-> txs]

\* line 67: the tick of one instance: the results it can give, each with the
\* instance's state afterwards
tickResults(s, open) ==
  IF s.kind = "linreg"
  THEN LET r == tick(s.sellBar, open, x, y)
       IN  {[motion |-> r.motion, raised |-> r.raised,
             next |-> [s EXCEPT !.sellBar = r.sellBar]]}
  ELSE IF s.kind = "open"
  THEN {[motion |-> "OPEN", raised |-> "none", next |-> s]}
  ELSE {[motion |-> m, raised |-> "none", next |-> s] : m \in {"OPEN", "CLOSE", "NONE"}}
         \cup {[motion |-> "NONE", raised |-> "StrategyError", next |-> s]}

\* lines 66-75: the next strategy is ticked and its motion applied; an
\* exception of the tick ends the call
StrategyTick ==
  /\ pc = "for_strategy"
  /\ si <= Len(strategies)
  /\ LET open == RGt(token, Zero)
     IN  \E r \in tickResults(strategies[si], open) :
           LET t == trade(r.motion, usd, token, transactions)
           IN  /\ strategies' = [strategies EXCEPT ![si] = r.next]
               /\ lastTick' = [kind |-> strategies[si].kind, holding |-> open,
                               price |-> y[Len(y)], sellBar |-> strategies[si].sellBar,
                               motion |-> r.motion, raised |-> r.raised]
               /\ ticked' = Append(ticked, <<index, si>>)
               /\ IF r.raised # "none"
                  THEN /\ outcome' = Raised(r.raised)
                       /\ pc' = "idle"
                       /\ UNCHANGED <<usd, token, transactions, si>>
                  ELSE /\ usd' = t.usd
                       /\ token' = t.token
                       /\ transactions' = t.transactions
                       /\ si' = si + 1
                       /\ UNCHANGED <<outcome, pc>>
  /\ UNCHANGED <<x_smooth, y_smooth, fee, closingsArg, baseline, index, calls, pre, prev>>

\* line 66: every strategy has been ticked at this index
StrategiesDone ==
  /\ pc = "for_strategy"
  /\ si > Len(strategies)
  /\ pc' = "for_index"
  /\ UNCHANGED <<usd, token, strategies, transactions, x_smooth, y_smooth, fee,
                 closingsArg, baseline, index, si, outcome, calls, pre, prev, lastTick, ticked>>

\* a liquidation at the terminal smoothed price instead of y[-1]
liquidate_terminal(u, t, price, f) ==
  RAdd(u, RMul(RMul(t, y_smooth[Len(y_smooth)]), RSub(One, f)))

\* line 77: the forced liquidation
liquidate(u, t, price, f) == RAdd(u, RMul(RMul(t, price), RSub(One, f)))

\* lines 77-79; y is unbound when the loop never ran (UnboundLocalError)
Liquidate ==
  /\ pc = "liquidate"
  /\ pc' = "idle"
  /\ IF index = -1
     THEN /\ outcome' = Raised("UnboundLocalError")
          /\ UNCHANGED <<usd, token>>
     ELSE LET u == liquidate(usd, token, y[Len(y)], fee)
          IN  /\ usd' = u
              /\ token' = Zero
              /\ outcome' = Returned(baseline, u)
  /\ UNCHANGED <<strategies, transactions, x_smooth, y_smooth, fee, closingsArg,
                 baseline, index, si, calls, pre, prev, lastTick, ticked>>

Next ==
  \/ \E s \in NewStrategies : AddStrategy(s)
  \/ Backtest
  \/ LoopNext
  \/ LoopExit
  \/ StrategyTick
  \/ StrategiesDone
  \/ Liquidate

Spec == Init /\ [][Next]_vars

----------------------------------------------------------------------------
(* Properties.                                                             *)

\* a is a prefix of b
IsPrefix(a, b) == Len(a) <= Len(b) /\ SubSeq(b, 1, Len(a)) = a

\* a and b agree within a tolerance of 1/1000
Near(a, b) == RLt(RSub(a, b), <<1, 1000>>) /\ RLt(RSub(b, a), <<1, 1000>>)

\* the last call has returned its pair
HasReturned == pc = "idle" /\ outcome.kind = "returned"

\* the last call has ended with an exception
HasRaised == pc = "idle" /\ outcome.kind = "raised"

\* the last call is inside backtest, past the reset
Running == pc \in {"for_index", "for_strategy", "liquidate"}

\* C1: portfolio exclusivity.  While a call runs, before its first
\* transaction usd alone is nonzero; after each of its transactions exactly
\* one of usd and token is nonzero; after the forced liquidation usd alone
\* is nonzero.
C1_Exclusivity ==
  /\ (Running /\ transactions = pre.transactions) => (usd # Zero /\ token = Zero)
  /\ (Running /\ transactions # pre.transactions) => ((usd # Zero) # (token # Zero))
  /\ HasReturned => (usd # Zero /\ token = Zero)

\* a stub opens at a smoothed price of 25 and closes at the next, which is 0
C1_Witness ==
  /\ Running
  /\ closingsArg = Peak26
  /\ fee = Zero
  /\ lastTick.motion = "CLOSE"
  /\ lastTick.price = Zero
  /\ Len(transactions) = Len(pre.transactions) + 2
  /\ usd = Zero
  /\ token = Zero

\* Scenario B has returned: Scenario A's closings, fee 0, the single strategy
\* that opens and never closes
ScenarioBReturned ==
  /\ HasReturned
  /\ closingsArg = ScenarioA
  /\ fee = Zero
  /\ pre.kinds = <<"open">>

\* C2 (as stated): in Scenario B the final equity equals the baseline within
\* tolerance.
C2_EquityIsBaseline ==
  ScenarioBReturned => Near(outcome.finalEquity, outcome.baseline)

\* C2 (amended): a call with the single always-OPEN strategy buys at the last
\* price of the first window, y_smooth[99], and is liquidated at the last
\* price of the final window, y_smooth[L - 2], so that finalEquity is
\* 100 / y_smooth[99] * y_smooth[L - 2] * (1 - fee)^2; in Scenario B this is
\* 39700/299 (about 132.78) and not the baseline of 199.
C2_EquityOfOpenAndHold ==
  /\ (HasReturned /\ pre.kinds = <<"open">>) =>
       outcome.finalEquity =
         RMul(RMul(RDiv(Num(InitialUsd), y_smooth[Window]),
                   y_smooth[Len(y_smooth) - 1]),
              RMul(RSub(One, fee), RSub(One, fee)))
  /\ ScenarioBReturned =>
       (outcome.finalEquity = <<39700, 299>> /\ outcome.baseline = Num(199))

C2_Witness ==
  /\ ScenarioBReturned
  /\ outcome.finalEquity = <<39700, 299>>
  /\ y_smooth[Window] = <<29900, 199>>
  /\ y_smooth[Len(y_smooth) - 1] = <<39700, 199>>
  /\ transactions = <<<<x_smooth[Window + 1], y_smooth[Window + 1], TRUE>>>>

\* Scenario A has returned: 50 equally spaced closings from 100 to 200, fee 0
ScenarioAReturned ==
  /\ HasReturned
  /\ closingsArg = ScenarioA
  /\ fee = Zero

\* C3 (as stated): in Scenario A the baseline is 200 within tolerance.
C3_BaselineIs200 == ScenarioAReturned => Near(outcome.baseline, Num(200))

\* C3 (amended): in Scenario A the baseline is 199: it buys at the first
\* smoothed price, 100 + 100/199 (the first closing plus the first trapezoid
\* of the integration), and sells at the last smoothed price, 200.
C3_BaselineIs199 ==
  ScenarioAReturned =>
    /\ outcome.baseline = Num(199)
    /\ y_smooth[1] = <<20000, 199>>
    /\ y_smooth[Len(y_smooth)] = Num(200)
    /\ outcome.baseline = RMul(RDiv(Num(InitialUsd), y_smooth[1]), y_smooth[Len(y_smooth)])

C3_Witness ==
  /\ ScenarioAReturned
  /\ pre.kinds = <<>>
  /\ outcome.baseline = Num(199)
  /\ closingsArg[1] = Num(100)
  /\ y_smooth[1] # closingsArg[1]

\* C4: a call with no strategy registered that returns, returns a final
\* equity of exactly 100, leaves 100 in usd and nothing in token, and leaves
\* the ledger as it was.
C4_NoAutoInvest ==
  (HasReturned /\ pre.kinds = <<>>) =>
    /\ outcome.finalEquity = Num(InitialUsd)
    /\ usd = Num(InitialUsd)
    /\ token = Zero
    /\ transactions = pre.transactions

C4_Witness ==
  /\ HasReturned
  /\ pre.kinds = <<>>
  /\ closingsArg = Ramp(26, Num(100), Num(-3))
  /\ fee = <<1, 2>>
  /\ outcome.finalEquity = Num(InitialUsd)

\* C5: the ledger at a call's entry is a prefix of the ledger during and
\* after the call, and a call that has begun and not yet reached its loop
\* body has usd = 100 and token = 0, whatever the call before left.
C5_LedgerGrowsPortfolioResets ==
  /\ IsPrefix(pre.transactions, transactions)
  /\ (calls > 0 /\ index = -1) => (usd = Num(InitialUsd) /\ token = Zero)

\* a second call that began with a non-empty ledger and another usd than
\* 100 has returned with the ledger grown
C5_Witness ==
  /\ calls = 2
  /\ HasReturned
  /\ pre.transactions # <<>>
  /\ pre.usd # Num(InitialUsd)
  /\ Len(transactions) > Len(pre.transactions)

\* C6: a tick of LinRegStrategy with holding true and the window's last price
\* at or below the instance's sellBar returns CLOSE.
C6_StopLossPrecedence ==
  (/\ lastTick.kind = "linreg"
   /\ lastTick.holding
   /\ RLe(lastTick.price, lastTick.sellBar)) => lastTick.motion = "CLOSE"

C6_Witness ==
  /\ lastTick.kind = "linreg"
  /\ lastTick.holding
  /\ RLt(lastTick.price, lastTick.sellBar)
  /\ lastTick.raised = "none"
  /\ lastTick.motion = "CLOSE"

\* the last two calls had the same arguments and the same strategies
\* registered, all of them deterministic, and both returned
SameInputsTwice ==
  /\ HasReturned
  /\ prev.outcome.kind = "returned"
  /\ prev.fee = fee
  /\ prev.closings = closingsArg
  /\ prev.kinds = pre.kinds
  /\ \A i \in 1..Len(pre.kinds) : pre.kinds[i] # "stub"

\* C7: two calls with identical closings, fee and registered strategies
\* return identical (baseline, finalEquity) pairs.
C7_Determinism == SameInputsTwice => outcome = prev.outcome

\* the always-OPEN strategy and a LinRegStrategy on the rising ramp: the
\* second call returns another final equity than the first
C7_Witness ==
  /\ SameInputsTwice
  /\ pre.kinds = <<"open", "linreg">>
  /\ closingsArg = RampUp27
  /\ prev.outcome.finalEquity = <<837500, 7907>>
  /\ outcome.finalEquity = <<837500, 8219>>
  /\ outcome.baseline = prev.outcome.baseline

\* C8: when a call ends with an exception, usd, token and the ledger are
\* what they were at its entry.
C8_ErrorAtomicity ==
  HasRaised =>
    /\ usd = pre.usd
    /\ token = pre.token
    /\ transactions = pre.transactions

\* a tick raises after a trade of the same call
C8_Witness ==
  /\ HasRaised
  /\ outcome.error = "StrategyError"
  /\ Len(transactions) > Len(pre.transactions)
  /\ usd # pre.usd

\* C9: a call with N < 2 closings, or with N <= 25 (a smoothed length of at
\* most 100), ends with InsufficientDataError.
C9_InsufficientDataError ==
  (pc = "idle" /\ calls > 0 /\ 4 * Len(closingsArg) - 1 <= Window) =>
    outcome = Raised("InsufficientDataError")

\* one closing: np.interp raises ValueError
C9_Witness ==
  /\ pc = "idle"
  /\ calls > 0
  /\ Len(closingsArg) = 1
  /\ outcome = Raised("ValueError")

\* C10: usd >= 0 and token >= 0 in every state.
C10_NonNegative == RLe(Zero, usd) /\ RLe(Zero, token)

\* a position opened at a negative smoothed price
C10_Witness ==
  /\ closingsArg = Spike26
  /\ \A i \in 1..Len(closingsArg) : RGt(closingsArg[i], Zero)
  /\ RLt(token, Zero)

\* backtest has just smoothed its closings: _x_smooth and _y_smooth are those
\* of closingsArg and the loop has not started
JustSmoothed == pc = "for_index" /\ index = -1

\* C12: for N >= 2 closings, _x_smooth and _y_smooth both have 4N - 1
\* elements after smoothing.
C12_LengthLaw ==
  (JustSmoothed /\ Len(closingsArg) >= 2) =>
     /\ Len(x_smooth) = 4 * Len(closingsArg) - 1
     /\ Len(y_smooth) = 4 * Len(closingsArg) - 1

C12_Witness ==
  /\ JustSmoothed
  /\ closingsArg = RampUp27
  /\ Len(x_smooth) = 107
  /\ Len(y_smooth) = 107

\* closings in arithmetic progression
IsArithmetic(c) ==
  /\ Len(c) >= 2
  /\ \A j \in 1..(Len(c) - 2) : RSub(c[j + 1], c[j]) = RSub(c[j + 2], c[j + 1])

\* C13 as stated: for closings c[i] = c[0] + d*i, every smoothed point lies on
\* that line, y_smooth[k] = c[0] + d * x_smooth[k] up to rounding.
C13_OnTheLine ==
  (JustSmoothed /\ IsArithmetic(closingsArg)) =>
     LET d == RSub(closingsArg[2], closingsArg[1])
     IN  \A k \in 1..Len(y_smooth) :
           Near(y_smooth[k], RAdd(closingsArg[1], RMul(d, x_smooth[k])))

\* C13 amended: for closings c[i] = c[0] + d*i, every smoothed point lies
\* half a step behind the line, y_smooth[k] = c[0] + d * (x_smooth[k] - 1/2),
\* x_smooth being the sampling grid shifted by 0.5.
C13_HalfStepBehindTheLine ==
  (JustSmoothed /\ IsArithmetic(closingsArg)) =>
     LET d == RSub(closingsArg[2], closingsArg[1])
     IN  \A k \in 1..Len(y_smooth) :
           y_smooth[k] = RAdd(closingsArg[1], RMul(d, RSub(x_smooth[k], <<1, 2>>)))

C13_Witness ==
  /\ JustSmoothed
  /\ closingsArg = Ramp(26, Num(100), Num(-3))
  /\ x_smooth[1] = <<153, 206>>
  /\ y_smooth[1] = <<10225, 103>>

\* C18: for strictly positive closings (N >= 2) every smoothed price is
\* strictly positive.
C18_SmoothedPositive ==
  (JustSmoothed /\ \A j \in 1..Len(closingsArg) : RGt(closingsArg[j], Zero)) =>
     \A k \in 1..Len(y_smooth) : RGt(y_smooth[k], Zero)

C18_Witness ==
  /\ JustSmoothed
  /\ closingsArg = Spike26
  /\ \A j \in 1..Len(closingsArg) : RGt(closingsArg[j], Zero)
  /\ RLt(y_smooth[Len(y_smooth)], Zero)

\* a step from this state is the tick of strategies[si] at index
Ticking == pc = "for_strategy" /\ si <= Len(strategies)

\* C14: a tick whose motion is NONE, OPEN while usd is 0, or CLOSE while token
\* is 0 leaves usd, token and the ledger unchanged (so of two strategies that
\* both return OPEN at the same index only the first one trades).
C14_NoEffect ==
  [][(/\ Ticking
      /\ lastTick'.raised = "none"
      /\ \/ lastTick'.motion = "NONE"
         \/ lastTick'.motion = "OPEN" /\ usd = Zero
         \/ lastTick'.motion = "CLOSE" /\ token = Zero)
     => (usd' = usd /\ token' = token /\ transactions' = transactions)]_vars

\* two strategies have both returned OPEN at index 100: one entry was appended
C14_Witness ==
  /\ pre.kinds = <<"open", "open">>
  /\ pc = "for_strategy"
  /\ index = Window
  /\ si = 3
  /\ lastTick.motion = "OPEN"
  /\ usd = Zero
  /\ Len(transactions) = Len(pre.transactions) + 1

\* C16: the entries one backtest call appends to the ledger alternate
\* true, false, true, ... starting with true (an open), so the call's opens
\* exceed its closes by 0 or 1.
C16_Alternation ==
  calls > 0 =>
    \A k \in 1..(Len(transactions) - Len(pre.transactions)) :
       transactions[Len(pre.transactions) + k][3] = (k % 2 = 1)

C16_Witness ==
  /\ calls > 0
  /\ Len(transactions) >= Len(pre.transactions) + 3
  /\ transactions[Len(pre.transactions) + 1][3]
  /\ ~transactions[Len(pre.transactions) + 2][3]
  /\ transactions[Len(pre.transactions) + 3][3]

\* C17 as stated: the time and price recorded for a transaction are the
\* smoothed point whose price the conversion used.
C17_RecordedIsTraded ==
  [][(Ticking /\ transactions' # transactions)
     => /\ transactions'[Len(transactions')][1] = x[Len(x)]
        /\ transactions'[Len(transactions')][2] = y[Len(y)]]_vars

\* C17 amended: a transaction at loop index i is recorded with the smoothed
\* point i, (x_smooth[i], y_smooth[i]) in the source's 0-based indexing, while
\* the conversion uses the price of the point before it, y_smooth[i - 1], the
\* last of the window.  (Sequences here are 1-based: index + 1 and index.)
C17_RecordedIsNextPoint ==
  [][(Ticking /\ transactions' # transactions)
     => /\ transactions'[Len(transactions')][1] = x_smooth[index + 1]
        /\ transactions'[Len(transactions')][2] = y_smooth[index + 1]
        /\ transactions'[Len(transactions')][3]
             => token' = RMul(RDiv(usd, y_smooth[index]), RSub(One, fee))
        /\ ~transactions'[Len(transactions')][3]
             => usd' = RMul(RMul(token, y_smooth[index]), RSub(One, fee))]_vars

\* an open on a falling line: bought at y_smooth[99], recorded at y_smooth[100]
C17_Witness ==
  /\ closingsArg = Ramp(26, Num(100), Num(-3))
  /\ fee = Zero
  /\ pc = "for_strategy"
  /\ index = Window
  /\ lastTick.motion = "OPEN"
  /\ lastTick.price = y_smooth[Window]
  /\ Len(transactions) = Len(pre.transactions) + 1
  /\ transactions[Len(transactions)][2] = y_smooth[Window + 1]
  /\ y_smooth[Window + 1] # y_smooth[Window]
  /\ token = RDiv(Num(InitialUsd), y_smooth[Window])

\* the tick calls of a call of backtest that has reached index ix and position
\* s of n strategies: every index from 100 up, every position from 1 to n
ExpectedTicks(ix, s, n) ==
  IF ix < Window \/ n = 0 THEN <<>>
  ELSE Array([k \in 1..((ix - Window) * n + s - 1) |->
                <<Window + (k - 1) \div n, ((k - 1) % n) + 1>>])

\* the tick calls made so far are these, and a call that has returned has
\* ticked every index below the smoothed length
TickedInOrder ==
  /\ Running => ticked = ExpectedTicks(index, si, Len(strategies))
  /\ HasReturned =>
       ticked = ExpectedTicks(Len(x_smooth) - 1, Len(pre.kinds) + 1, Len(pre.kinds))

\* C11: during a call of backtest every registered strategy is ticked exactly
\* once for each index 100..L-1, indices increasing and strategies in
\* registration order within an index, each time with a window of the 100
\* consecutive smoothed points before the index, the most recent last, and
\* with holding = (token > 0) at the moment of the call.
C11_TickContract ==
  [][/\ TickedInOrder'
     /\ Ticking =>
          /\ Len(x) = Window
          /\ Len(y) = Window
          /\ \A k \in 1..Window : /\ x[k] = x_smooth[index - Window + k]
                                   /\ y[k] = y_smooth[index - Window + k]
          /\ lastTick'.holding = RGt(token, Zero)
          /\ lastTick'.price = y_smooth[index]]_vars

\* a call with two strategies on 107 smoothed points has returned after its
\* 14 tick calls, the last one made while holding
C11_Witness ==
  /\ HasReturned
  /\ pre.kinds = <<"open", "linreg">>
  /\ Len(x_smooth) = 107
  /\ Len(ticked) = 14
  /\ ticked[1] = <<100, 1>>
  /\ ticked[2] = <<100, 2>>
  /\ ticked[14] = <<106, 2>>
  /\ lastTick.holding

\* C15: a tick of a LinRegStrategy lowers its sellBar only if it returns OPEN,
\* which it does only when called with holding = false; a tick called with
\* holding = true never lowers it.
C15_StopLoweredOnlyByOpen ==
  [][(Ticking /\ strategies[si].kind = "linreg")
     => /\ RLt(strategies'[si].sellBar, strategies[si].sellBar)
             => (lastTick'.motion = "OPEN" /\ ~RGt(token, Zero))
        /\ RGt(token, Zero)
             => ~RLt(strategies'[si].sellBar, strategies[si].sellBar)]_vars

\* an OPEN on the crashing series after a run on the rising one: the stop left
\* by the first run is replaced by a lower one
C15_Witness ==
  /\ pre.kinds = <<"linreg">>
  /\ closingsArg = Crash26
  /\ prev.closings = Rise26
  /\ pc = "for_strategy"
  /\ index = Window
  /\ si = 2
  /\ lastTick.motion = "OPEN"
  /\ ~lastTick.holding
  /\ RLt(strategies[1].sellBar, lastTick.sellBar)

\* every closing of the call is strictly positive
PositiveClosings == \A j \in 1..Len(closingsArg) : RGt(closingsArg[j], Zero)

\* C19: a LinRegStrategy returns CLOSE only when called with holding = true and
\* OPEN only when called with holding = false, and with positive prices every
\* such motion is executed: it changes the portfolio and is entered in the
\* ledger.
C19_LinRegMotionsExecuted ==
  [][(/\ Ticking
      /\ strategies[si].kind = "linreg"
      /\ PositiveClosings
      /\ lastTick'.raised = "none"
      /\ lastTick'.motion # "NONE")
     => /\ lastTick'.motion = "CLOSE" => RGt(token, Zero)
        /\ lastTick'.motion = "OPEN" => ~RGt(token, Zero)
        /\ Len(transactions') = Len(transactions) + 1]_vars

\* the crashing series: after an OPEN at 10274/103 and a stop-loss CLOSE at
\* -26/103 the strategy returns OPEN again, which finds usd < 0
C19_Witness ==
  /\ pre.kinds = <<"linreg">>
  /\ closingsArg = Crash26
  /\ PositiveClosings
  /\ pc = "for_strategy"
  /\ index = Window + 2
  /\ si = 2
  /\ lastTick.motion = "OPEN"
  /\ ~lastTick.holding
  /\ lastTick.price = <<-10326, 103>>
  /\ usd = <<-1300, 5137>>
  /\ token = Zero
  /\ Len(transactions) = Len(pre.transactions) + 2

\* the entries the last call, and the call before it, appended to the ledger
Appended == SubSeq(transactions, Len(pre.transactions) + 1, Len(transactions))

AppendedBefore ==
  SubSeq(pre.transactions, Len(prev.transactions) + 1, Len(pre.transactions))

\* C20: with exactly one LinRegStrategy registered, two calls with the same fee
\* and closings return the same pair and append the same transactions, whatever
\* sellBar the first call has left.
C20_StaleStopDoesNotLeak ==
  (SameInputsTwice /\ pre.kinds = <<"linreg">>) =>
     (outcome = prev.outcome /\ Appended = AppendedBefore)

\* the rising series twice: the second call starts with the stop the first
\* left above its opening price, and trades as the first did
C20_Witness ==
  /\ SameInputsTwice
  /\ pre.kinds = <<"linreg">>
  /\ closingsArg = Rise26
  /\ strategies[1].sellBar = <<1674938, 12875>>
  /\ Len(Appended) = 1
  /\ Appended = AppendedBefore
  /\ outcome = prev.outcome
  /\ outcome.finalEquity = <<1372900, 8579>>

====
